---- MODULE Spec2Model ----
(***************************************************************************)
(* Model of the code-execution service of src/app.js: the POST             *)
(* /run-program handler (validation, workspace directory, source and input *)
(* files, command synthesis, child_process.exec, result classification,    *)
(* cleanup) running in a cluster worker, behind the rate limiter of the    *)
(* worker, and the master process that forks the workers.                  *)
(*                                                                         *)
(* Text on which the code works character by character (code, language,    *)
(* stdout, stderr) is a sequence of one-character strings.  Fixed message  *)
(* texts, on which no character operation is applied, are kept as a        *)
(* one-chunk sequence <<"...">>.                                           *)
(***************************************************************************)
EXTENDS Integers, Sequences, FiniteSets, TLC

(***************************************************************************)
(* Bounds of the model.                                                    *)
(***************************************************************************)
\* number of connections on which the worker receives requests
NumSlots == 2
\* number of requests (uuidv4 tokens handed out) in one behaviour
MaxRequests == 2
\* number of those requests when they are sent one after the other
SeqRequests == 1
\* os.cpus().length of the machine, src/app.js:16
NumCPUs == 2
\* number of exits of workers other than the one that runs the handlers
MaxExits == 2

Slots == 1..NumSlots
Tokens == 1..MaxRequests

(***************************************************************************)
(* Program constants.                                                      *)
(***************************************************************************)
\* src/app.js:102  code.length > 5000
MaxCodeLength == 5000
\* src/app.js:60  max: 1000
RateLimitMax == 1000
\* src/app.js:102  input.length > 1000
MaxInputLength == 1000

(***************************************************************************)
(* JavaScript values of the request body.                                  *)
(*   code, language: [t, s, pad]   t the type, s the characters of a       *)
(*        string, pad a run of further space characters that follows s     *)
(*        (a long string is not spelled out character by character).       *)
(*   input: [t, n, elen]   an array of n entries of elen characters each,  *)
(*        or a string of n characters.                                     *)
(***************************************************************************)
Undefined == [t |-> "undefined", s |-> <<>>, pad |-> 0]
Str(s) == [t |-> "string", s |-> s, pad |-> 0]
Padded(s, k) == [t |-> "string", s |-> s, pad |-> k]
Num == [t |-> "number", s |-> <<>>, pad |-> 0]

NoInput == [t |-> "undefined", n |-> 0, elen |-> 0]
NullInput == [t |-> "null", n |-> 0, elen |-> 0]
ArrayInput(k, l) == [t |-> "array", n |-> k, elen |-> l]
StringInput(k) == [t |-> "string", n |-> k, elen |-> 0]

\* JavaScript truthiness of a code or language value (!code, !language)
Truthy(v) ==
  CASE v.t = "string" -> Len(v.s) + v.pad > 0
    [] v.t = "number" -> TRUE
    [] OTHER -> FALSE

\* JavaScript truthiness of the input value (input && ..., if (input))
TruthyInput(v) ==
  CASE v.t = "array" -> TRUE
    [] v.t = "string" -> v.n > 0
    [] OTHER -> FALSE

\* code.length > limit; the length of a value without one is undefined and
\* undefined > limit is false
CodeLengthExceeds(v, limit) ==
  v.t = "string" /\ Len(v.s) + v.pad > limit

\* input.length > limit: the number of entries of an array, the number of
\* characters of a string
InputLengthExceeds(v, limit) ==
  v.t \in {"array", "string"} /\ v.n > limit

\* inputArray.join("\n").length
JoinedLength(v) ==
  IF v.n = 0 THEN 0 ELSE v.n * v.elen + (v.n - 1)

(***************************************************************************)
(* String.prototype.toLowerCase                                            *)
(***************************************************************************)
UpperLetters ==
  <<"A","B","C","D","E","F","G","H","I","J","K","L","M",
    "N","O","P","Q","R","S","T","U","V","W","X","Y","Z">>
LowerLetters ==
  <<"a","b","c","d","e","f","g","h","i","j","k","l","m",
    "n","o","p","q","r","s","t","u","v","w","x","y","z">>
Digits == {"0","1","2","3","4","5","6","7","8","9"}

Range(f) == {f[i] : i \in DOMAIN f}

LowerChar(c) ==
  IF c \in Range(UpperLetters)
  THEN LowerLetters[CHOOSE i \in DOMAIN UpperLetters : UpperLetters[i] = c]
  ELSE c

ToLowerCase(s) == [i \in DOMAIN s |-> LowerChar(s[i])]

(***************************************************************************)
(* fileExtensions[language.toLowerCase()]                                  *)
(* fileExtensions is an object literal: a key it does not define is looked *)
(* up on Object.prototype.                                                 *)
(***************************************************************************)
java == <<"j","a","v","a">>
python == <<"p","y","t","h","o","n">>
javascript == <<"j","a","v","a","s","c","r","i","p","t">>
clang == <<"c">>
cpp == <<"c","p","p">>
csharp == <<"c","s","h","a","r","p">>

NoExtension == "undefined"

OwnExtension(key) ==
  CASE key = java -> "java"
    [] key = python -> "py"
    [] key = javascript -> "js"
    [] key = clang -> "c"
    [] key = cpp -> "cpp"
    [] key = csharp -> "cs"
    [] OTHER -> NoExtension

\* the properties of Object.prototype, and their values converted to a
\* string by the template literal `Program.${fileExtension}`
InheritedExtension(key) ==
  CASE key = <<"c","o","n","s","t","r","u","c","t","o","r">>
         -> "function Object() { [native code] }"
    [] key = <<"_","_","p","r","o","t","o","_","_">> -> "[object Object]"
    [] key = <<"t","o","S","t","r","i","n","g">>
         -> "function toString() { [native code] }"
    [] key = <<"v","a","l","u","e","O","f">>
         -> "function valueOf() { [native code] }"
    [] OTHER -> NoExtension

FileExtensionOf(key) ==
  IF OwnExtension(key) # NoExtension THEN OwnExtension(key)
  ELSE InheritedExtension(key)

(***************************************************************************)
(* code.match(re): re is the keyword class, one or more white space        *)
(* characters, and a captured identifier: a letter, _ or $ followed by     *)
(* any number of letters, digits, _ and $.                                 *)
(***************************************************************************)
IsSpace(c) == c \in {" ", "\n", "\t"}
IsIdStart(c) ==
  c \in Range(UpperLetters) \cup Range(LowerLetters) \cup {"_", "$"}
IsIdPart(c) == IsIdStart(c) \/ c \in Digits

ClassKeyword == <<"c","l","a","s","s">>

\* the index of the first character after the run of white space that
\* starts at i (i itself when s[i] is no white space)
RECURSIVE SkipSpaces(_, _)
SkipSpaces(s, i) ==
  IF i <= Len(s) /\ IsSpace(s[i]) THEN SkipSpaces(s, i + 1) ELSE i

\* the index of the last character of the identifier that starts at i
RECURSIVE IdEnd(_, _)
IdEnd(s, i) ==
  IF i + 1 <= Len(s) /\ IsIdPart(s[i + 1]) THEN IdEnd(s, i + 1) ELSE i

\* the pattern matches at position i of s
MatchesAt(s, i) ==
  /\ i + 5 <= Len(s)
  /\ SubSeq(s, i, i + 4) = ClassKeyword
  /\ IsSpace(s[i + 5])
  /\ SkipSpaces(s, i + 5) <= Len(s)
  /\ IsIdStart(s[SkipSpaces(s, i + 5)])

\* ClassNameMatch that takes the rightmost match of the pattern
ClassNameMatchLast(s) ==
  IF \E i \in 1..Len(s) : MatchesAt(s, i)
  THEN LET i == CHOOSE k \in 1..Len(s) :
                  MatchesAt(s, k) /\ \A j \in (k + 1)..Len(s) : ~MatchesAt(s, j)
           b == SkipSpaces(s, i + 5)
       IN SubSeq(s, b, IdEnd(s, b))
  ELSE <<>>

\* classNameMatch[1] of the leftmost match, <<>> when match() returns null.
\* The pad of a code value is white space at its end and takes no part in a
\* match.
ClassNameMatch(s) ==
  IF \E i \in 1..Len(s) : MatchesAt(s, i)
  THEN LET i == CHOOSE k \in 1..Len(s) :
                  MatchesAt(s, k) /\ \A j \in 1..(k - 1) : ~MatchesAt(s, j)
           b == SkipSpaces(s, i + 5)
       IN SubSeq(s, b, IdEnd(s, b))
  ELSE <<>>

(***************************************************************************)
(* String.prototype.trim and String.prototype.includes                     *)
(***************************************************************************)
RECURSIVE TrimStart(_)
TrimStart(s) ==
  IF s # <<>> /\ IsSpace(Head(s)) THEN TrimStart(Tail(s)) ELSE s

RECURSIVE TrimEnd(_)
TrimEnd(s) ==
  IF s # <<>> /\ IsSpace(s[Len(s)])
  THEN TrimEnd(SubSeq(s, 1, Len(s) - 1))
  ELSE s

Trim(s) == TrimEnd(TrimStart(s))

Includes(s, sub) ==
  \E i \in 1..(Len(s) - Len(sub) + 1) : SubSeq(s, i, i + Len(sub) - 1) = sub

(***************************************************************************)
(* Paths and the execution command.  A command is the sequence of its      *)
(* words; a word is a path [dir, file] below the workspace directory of    *)
(* token dir, or a fixed word of the template (dir = 0).                   *)
(***************************************************************************)
Word(w) == [dir |-> 0, file |-> <<w>>]
\* a word made of a text of the program, outside the workspace
Text(f) == [dir |-> 0, file |-> f]
\* path.join(tempDir, name)
PathJoin(d, name) == [dir |-> d, file |-> name]
\* tempDir itself: path.join(__dirname, "temp", uuidv4())
DirPath(d) == [dir |-> d, file |-> <<>>]
\* inputFilePath = null
NoPath == [dir |-> 0, file |-> <<>>]

InputFileName == <<"input.txt">>

\* `Program.${fileExtension}`
ProgramFileName(ext) == <<"Program", ".", ext>>
\* `${classNameMatch[1]}.java`
JavaFileName(className) == className \o <<".java">>

\* path.basename(fileName, ".java")
Basename(fileName, ext) ==
  IF fileName # <<>> /\ fileName[Len(fileName)] = ext
  THEN SubSeq(fileName, 1, Len(fileName) - 1)
  ELSE fileName

\* the words "< inputFilePath" that the second template of each case adds
Redirect(inputFilePath) ==
  IF inputFilePath # NoPath THEN <<Word("<"), inputFilePath>> ELSE <<>>

NoCommand == <<>>

\* switch (language.toLowerCase()) of the handler; NoCommand when no case
\* matches and executionCommand stays undefined
SynthesizeCommand(key, d, fileName, inputFilePath) ==
  LET filePath == PathJoin(d, fileName)
      tempDir == DirPath(d)
  IN CASE key = java ->
            <<Word("javac"), filePath, Word("&&"), Word("java"), Word("-cp"),
              tempDir, Text(Basename(fileName, ".java"))>> \o
            Redirect(inputFilePath)
       [] key = python ->
            <<Word("python3"), filePath>> \o Redirect(inputFilePath)
       [] key = javascript ->
            <<Word("node"), filePath>> \o Redirect(inputFilePath)
       [] key = clang ->
            <<Word("gcc"), filePath, Word("-o"), PathJoin(d, <<"program">>),
              Word("&&"), PathJoin(d, <<"program">>)>> \o
            Redirect(inputFilePath)
       [] key = cpp ->
            <<Word("g++"), filePath, Word("-o"), PathJoin(d, <<"program">>),
              Word("&&"), PathJoin(d, <<"program">>)>> \o
            Redirect(inputFilePath)
       [] key = csharp ->
            <<Word("mcs"), filePath, Word("-out:"),
              PathJoin(d, <<"Program.exe">>), Word("&&"), Word("mono"),
              PathJoin(d, <<"Program.exe">>)>> \o Redirect(inputFilePath)
       [] OTHER -> NoCommand

(***************************************************************************)
(* Responses: res.status(status).json({responseCode, output, errorMessage})*)
(***************************************************************************)
NoText == <<>>
Envelope(status, responseCode, output, errorMessage) ==
  [kind |-> "envelope", status |-> status, responseCode |-> responseCode,
   output |-> output, errorMessage |-> errorMessage]
NoResponse ==
  [kind |-> "none", status |-> 0, responseCode |-> 0,
   output |-> NoText, errorMessage |-> NoText]
\* the error page of the framework, which is no envelope of the handler
\* the response of the rate limiter to a request it does not pass on
TooManyRequests ==
  [kind |-> "limiter", status |-> 429, responseCode |-> 0, output |-> NoText,
   errorMessage |-> NoText]
\* the response of the framework to a request no route matches
NotFound ==
  [kind |-> "framework", status |-> 404, responseCode |-> 0,
   output |-> NoText, errorMessage |-> NoText]
FrameworkError ==
  [kind |-> "framework", status |-> 500, responseCode |-> 0,
   output |-> NoText, errorMessage |-> NoText]

RequiredText == <<"Code and language are required.">>
TooLargeText == <<"Code or input is too large. Please limit their sizes.">>
UnsupportedText == <<"Unsupported language.">>
NoClassText == <<"Invalid Java code. Class name is missing.">>
TimeoutText == <<"Execution timed out after 30 seconds.">>
CompilationText == <<"Compilation error occurred.">>
RuntimeText == <<"Runtime error occurred.">>
InternalText == <<"Internal server error occurred.">>
NotArrayText == <<"Input should be an array of strings.">>

(***************************************************************************)
(* The (error, stdout, stderr) that child_process.exec hands to its        *)
(* callback.  error: "none" (exit code 0), "exit" (another exit code),     *)
(* "timeout" (the timer of the timeout option killed the shell),           *)
(* "maxbuffer" (the captured output outgrew the buffer), "spawn" (the      *)
(* shell could not be started).  killed is error.killed.                   *)
(***************************************************************************)
ExecResult(error, killed, message, stdout, stderr) ==
  [error |-> error, killed |-> killed, message |-> message,
   stdout |-> stdout, stderr |-> stderr]
NoResult == ExecResult("none", FALSE, NoText, <<>>, <<>>)

ErrorWord == <<"e","r","r","o","r">>

\* error.message of a failed command: `Command failed: ${cmd}\n${stderr}`
CommandFailed(stderr) == <<"Command failed: ", "\n">> \o stderr

\* Classify with the rules in another order: the timeout rule comes after
\* the compile-error rule
ClassifyCompileFirst(res) ==
  IF res.error # "none"
  THEN IF Includes(res.stderr, ErrorWord)
       THEN Envelope(500, 202,
                     IF Trim(res.stderr) # <<>> THEN Trim(res.stderr)
                     ELSE res.message,
                     CompilationText)
       ELSE IF res.killed
            THEN Envelope(500, 202, TimeoutText, NoText)
            ELSE Envelope(500, 202,
                          IF Trim(res.stderr) # <<>> THEN Trim(res.stderr)
                          ELSE res.message,
                          RuntimeText)
  ELSE Envelope(200, 201, Trim(res.stdout), NoText)

\* Classify that takes every execution ended by a signal of exec itself,
\* the one for an outgrown buffer included, for a timeout
ClassifyKilledOrBuffer(res) ==
  IF res.error # "none"
  THEN IF res.killed \/ res.error = "maxbuffer"
       THEN Envelope(500, 202, TimeoutText, NoText)
       ELSE Envelope(500, 202,
                     IF Trim(res.stderr) # <<>> THEN Trim(res.stderr)
                     ELSE res.message,
                     IF Includes(res.stderr, ErrorWord) THEN CompilationText
                     ELSE RuntimeText)
  ELSE Envelope(200, 201, Trim(res.stdout), NoText)

\* Classify that falls back to error.message only when stderr itself, not
\* trimmed, is empty
ClassifyEmptyStderr(res) ==
  IF res.error # "none"
  THEN IF res.killed
       THEN Envelope(500, 202, TimeoutText, NoText)
       ELSE Envelope(500, 202,
                     IF res.stderr # <<>> THEN Trim(res.stderr)
                     ELSE res.message,
                     IF Includes(res.stderr, ErrorWord) THEN CompilationText
                     ELSE RuntimeText)
  ELSE Envelope(200, 201, Trim(res.stdout), NoText)

\* the response of the exec callback, lines 204-237
Classify(res) ==
  IF res.error # "none"
  THEN IF res.killed
       THEN Envelope(500, 202, TimeoutText, NoText)
       ELSE Envelope(500, 202,
                     IF Trim(res.stderr) # <<>> THEN Trim(res.stderr)
                     ELSE res.message,
                     IF Includes(res.stderr, ErrorWord) THEN CompilationText
                     ELSE RuntimeText)
  ELSE Envelope(200, 201, Trim(res.stdout), NoText)

(***************************************************************************)
(* State.                                                                  *)
(*   req[r]     the handler of the request on connection r: its position   *)
(*              pc, the request body and the locals of the handler         *)
(*   fsDirs[d]  the directory temp/<token d> on disk; its files are        *)
(*              "source", the file at filePath, and "input", the file at   *)
(*              inputFilePath                                              *)
(*   procs[d]   the processes spawned by exec for the request of token d   *)
(*   uuidCount  the number of tokens uuidv4() has returned                 *)
(*   worker     the worker process that runs the handlers                  *)
(*   master     the master process: forked, the workers forked by the      *)
(*              loop of line 40; live, the worker processes alive; exits,  *)
(*              the 'exit' events emitted and not yet handled; exited, the *)
(*              exits so far of workers other than `worker`                *)
(*   limiter    the rate limiters, for one client address and their        *)
(*              current window: hits, the count in the store of `worker`,  *)
(*              and admitted, the requests of the address that the limiter *)
(*              of `worker` has passed on; peerHits and peerAdmitted, the  *)
(*              same for one other worker                                  *)
(***************************************************************************)
VARIABLES req, fsDirs, procs, uuidCount, worker, master, limiter
vars == <<req, fsDirs, procs, uuidCount, worker, master, limiter>>

NoBody == [code |-> Undefined, language |-> Undefined, input |-> NoInput]

Blank ==
  [pc |-> "idle", body |-> NoBody, tempDir |-> 0, created |-> FALSE,
   fileName |-> <<>>, inputFilePath |-> NoPath, executionCommand |-> NoCommand,
   err |-> NoText, result |-> NoResult, response |-> NoResponse,
   rmCalls |-> 0, rmFailed |-> FALSE, sent |-> 0, spawned |-> 0]

NoDir == [exists |-> FALSE, files |-> {}]
\* the stores of the limiters when the workers start
NoHits == [hits |-> 0, admitted |-> 0, peerHits |-> 0, peerAdmitted |-> 0]
NoProcs == [shell |-> "none", prog |-> "none"]

Init ==
  /\ req = [r \in Slots |-> Blank]
  /\ fsDirs = [d \in Tokens |-> NoDir]
  /\ procs = [d \in Tokens |-> NoProcs]
  /\ uuidCount = 0
  /\ worker = "up"
  /\ master = [forked |-> NumCPUs, live |-> NumCPUs, exits |-> 0,
               exited |-> 0]
  /\ limiter = NoHits

\* positions at which a handler waits for an operation to complete
InFlight ==
  {"mkdir", "rm_unsupported", "rm_java", "writeSource", "writeInput",
   "exec", "rm_callback", "rm_catch", "rejected"}

(***************************************************************************)
(* Steps of the handler: each maps the handler record to the one at the    *)
(* next point where the handler waits or ends.                             *)
(***************************************************************************)
\* res.status(..).json(..), and the handler ends
Respond(h, resp) ==
  [h EXCEPT !.response = resp, !.sent = @ + 1, !.pc = "done"]

\* await cleanup(tempDir): fs.rm is called, the handler waits for it
CallCleanup(h, at) == [h EXCEPT !.rmCalls = @ + 1, !.pc = at]

\* an exception outside the try block: the promise of the handler rejects
Reject(h) == [h EXCEPT !.pc = "rejected"]

\* Catch that answers at once and leaves the workspace on disk
CatchNoCleanup(h, message) ==
  Respond([h EXCEPT !.err = message],
          Envelope(500, 202, message, InternalText))

\* an exception inside the try block: catch (err), line 239-240
Catch(h, message) == CallCleanup([h EXCEPT !.err = message], "rm_catch")

\* line 92-111: the two validations, then the directory is asked for
Validate(h, b, token) ==
  LET g == [h EXCEPT !.body = b]
  IN IF ~Truthy(b.code) \/ ~Truthy(b.language)
     THEN Respond(g, Envelope(400, 203, RequiredText, RequiredText))
     ELSE IF \/ CodeLengthExceeds(b.code, MaxCodeLength)
             \/ (TruthyInput(b.input)
                   /\ InputLengthExceeds(b.input, MaxInputLength))
          THEN Respond(g, Envelope(400, 203, TooLargeText, NoText))
          ELSE [g EXCEPT !.tempDir = token, !.pc = "mkdir"]

\* line 150-151: try { await fs.writeFile(filePath, code)
\* (writeFile rejects a value that is no string)
StartWriteSource(h) ==
  IF h.body.code.t # "string"
  THEN Catch(h, <<"The \"data\" argument must be of type string">>)
  ELSE [h EXCEPT !.pc = "writeSource"]

\* FileNameOf that names the file after the class of the code for every
\* language
FileNameOfClassAlways(key, fileExtension, code) ==
  IF ClassNameMatch(code.s) # <<>> THEN JavaFileName(ClassNameMatch(code.s))
  ELSE ProgramFileName(fileExtension)

\* line 132-139: Program.<extension>, or <class name>.java for java
FileNameOf(key, fileExtension, code) ==
  IF key = java THEN JavaFileName(ClassNameMatch(code.s))
  ELSE ProgramFileName(fileExtension)

\* AfterMkdir without the return of line 141-147: java code without a class
\* name is written to Program.java
AfterMkdirNoClassCheck(h) ==
  LET language == h.body.language
      code == h.body.code
      key == ToLowerCase(language.s)
      fileExtension == FileExtensionOf(key)
  IN IF language.t # "string" THEN Reject(h)
     ELSE IF fileExtension = NoExtension
          THEN CallCleanup(h, "rm_unsupported")
          ELSE IF key = java /\ code.t # "string" THEN Reject(h)
               ELSE IF key = java /\ ClassNameMatch(code.s) = <<>>
                    THEN StartWriteSource(
                           [h EXCEPT !.fileName =
                               ProgramFileName(fileExtension)])
                    ELSE StartWriteSource(
                           [h EXCEPT !.fileName =
                               FileNameOf(key, fileExtension, code)])

\* line 113-148, after mkdir has succeeded
AfterMkdir(h) ==
  LET language == h.body.language
      code == h.body.code
      key == ToLowerCase(language.s)
      fileExtension == FileExtensionOf(key)
  IN IF language.t # "string" THEN Reject(h)
     ELSE IF fileExtension = NoExtension
          THEN CallCleanup(h, "rm_unsupported")
          ELSE IF key = java /\ code.t # "string" THEN Reject(h)
               ELSE IF key = java /\ ClassNameMatch(code.s) = <<>>
                    THEN CallCleanup(h, "rm_java")
                    ELSE StartWriteSource(
                           [h EXCEPT !.fileName =
                               FileNameOf(key, fileExtension, code)])

\* line 158-201: the command is synthesized and exec is called; exec throws
\* for a command that is no string
SynthesizeAndExec(h) ==
  LET cmd == SynthesizeCommand(ToLowerCase(h.body.language.s), h.tempDir,
                               h.fileName, h.inputFilePath)
  IN IF cmd = NoCommand
     THEN Catch(h, <<"The \"command\" argument must be of type string">>)
     ELSE [h EXCEPT !.executionCommand = cmd, !.spawned = @ + 1,
                    !.pc = "exec"]

\* AfterWriteSource that writes no input file for an empty array
AfterWriteSourceNonEmpty(h) ==
  IF TruthyInput(h.body.input) /\ h.body.input.n > 0
  THEN IF h.body.input.t # "array"
       THEN Catch(h, NotArrayText)
       ELSE [h EXCEPT !.pc = "writeInput"]
  ELSE SynthesizeAndExec(h)

\* AfterWriteSource that does not wait for the write of input.txt: the
\* command is synthesized and spawned while the write is under way
AfterWriteSourceNoAwait(h) ==
  IF TruthyInput(h.body.input)
  THEN IF h.body.input.t # "array"
       THEN Catch(h, NotArrayText)
       ELSE SynthesizeAndExec(
              [h EXCEPT !.inputFilePath = PathJoin(h.tempDir, InputFileName)])
  ELSE SynthesizeAndExec(h)

\* line 153-156 and prepareInputFile up to its writeFile, line 76-82
AfterWriteSource(h) ==
  IF TruthyInput(h.body.input)
  THEN IF h.body.input.t # "array"
       THEN Catch(h, NotArrayText)
       ELSE [h EXCEPT !.pc = "writeInput"]
  ELSE SynthesizeAndExec(h)

\* line 83 and 155: prepareInputFile returns the path
AfterWriteInput(h) ==
  SynthesizeAndExec(
    [h EXCEPT !.inputFilePath = PathJoin(h.tempDir, InputFileName)])

\* AfterCleanup without the return of line 125: the unsupported-language
\* response is sent and the handler goes on to the try block
AfterCleanupNoReturn(h) ==
  CASE h.pc = "rm_unsupported" ->
         StartWriteSource(
           [h EXCEPT !.response =
                       Envelope(400, 203, UnsupportedText, UnsupportedText),
                     !.sent = @ + 1])
    [] h.pc = "rm_java" -> Respond(h, Envelope(400, 400, NoClassText, NoText))
    [] h.pc = "rm_callback" -> Respond(h, Classify(h.result))
    [] h.pc = "rm_catch" -> Respond(h, Envelope(500, 202, h.err, InternalText))

\* the response sent once the cleanup awaited at h.pc has returned
AfterCleanup(h) ==
  CASE h.pc = "rm_unsupported" ->
         Respond(h, Envelope(400, 203, UnsupportedText, UnsupportedText))
    [] h.pc = "rm_java" -> Respond(h, Envelope(400, 400, NoClassText, NoText))
    [] h.pc = "rm_callback" -> Respond(h, Classify(h.result))
    [] h.pc = "rm_catch" -> Respond(h, Envelope(500, 202, h.err, InternalText))

(***************************************************************************)
(* The request bodies the model sends.                                     *)
(***************************************************************************)
CodePrint == <<"p","(","1",")">>
CodeClassA == <<"c","l","a","s","s"," ","A","{","}">>
CodeClassB == <<"c","l","a","s","s"," ","B","{","}">>
CodeNoSpace == <<"c","l","a","s","s","A">>
CodeDigit == <<"c","l","a","s","s"," ","1","A">>
CodeSecond ==
  <<"s","u","b","c","l","a","s","s","\n","\t","A","1","$"," ",
    "c","l","a","s","s"," ","B">>

Codes ==
  {Undefined, Num, Str(<<>>), Str(CodePrint), Str(CodeClassA), Str(CodeClassB),
   Str(CodeNoSpace), Str(CodeDigit), Str(CodeSecond),
   Padded(CodeClassA, MaxCodeLength - Len(CodeClassA)),
   Padded(CodeClassA, MaxCodeLength - Len(CodeClassA) + 1)}

Languages ==
  {Undefined, Num, Str(<<>>), Str(java), Str(<<"J","a","V","A">>),
   Str(python), Str(javascript), Str(clang), Str(cpp),
   Str(<<"C","S","h","a","r","p">>), Str(<<"r","u","b","y">>),
   Str(<<"c","o","n","s","t","r","u","c","t","o","r">>),
   Str(<<"_","_","p","r","o","t","o","_","_">>),
   Str(<<"t","o","S","t","r","i","n","g">>)}

Inputs ==
  {NoInput, NullInput, ArrayInput(0, 0), ArrayInput(1, 2),
   ArrayInput(1, MaxInputLength + 1), ArrayInput(MaxInputLength, 0),
   ArrayInput(MaxInputLength + 1, 0), StringInput(3),
   StringInput(MaxInputLength + 1)}

\* every code with three languages, every language with two codes, every
\* input with two languages
Bodies ==
  [code : Codes, language : {Str(java), Str(<<"J","a","V","A">>), Str(python)},
   input : {NoInput}]
    \cup
  [code : {Str(CodePrint), Str(CodeClassA)}, language : Languages,
   input : {NoInput, ArrayInput(1, 2)}]
    \cup
  [code : {Str(CodePrint)}, language : {Str(python), Str(clang)},
   input : Inputs]

Stdouts == {<<>>, <<" ","2","\n">>}
Stderrs ==
  {<<>>, <<" ","\n">>, <<"E","r","r","o","r","\n">>,
   <<"x",":"," ","e","r","r","o","r","\n">>}

\* what exec can report when the shell has exited by itself
ExitResults ==
  {ExecResult("none", FALSE, NoText, o, e) : o \in Stdouts, e \in Stderrs}
    \cup
  {ExecResult("exit", FALSE, CommandFailed(e), o, e) :
     o \in Stdouts, e \in Stderrs}

\* what exec can report when its timer has killed the shell: error.killed
\* is set, stdout and stderr hold what was captured until then
TimeoutResults ==
  {ExecResult("timeout", TRUE, CommandFailed(e), o, e) :
     o \in Stdouts, e \in Stderrs}

(***************************************************************************)
(* Actions.                                                                *)
(***************************************************************************)
\* Uuidv4 that returns the token it has returned last
Uuidv4Reused == IF uuidCount = 0 THEN uuidCount + 1 ELSE uuidCount

\* the token that uuidv4() returns next, line 110
Uuidv4 == uuidCount + 1

\* the handler of app.post("/run-program") is entered on connection r with
\* body b, line 87-111
EnterHandler(r, b) ==
  /\ worker = "up"
  /\ req[r].pc = "idle"
  /\ uuidCount < MaxRequests
  /\ LET h == Validate(req[r], b, Uuidv4)
     IN /\ req' = [req EXCEPT ![r] = h]
        /\ uuidCount' = IF h.pc = "mkdir" THEN uuidCount + 1 ELSE uuidCount

\* a request that the rate limiter has passed on, its count left out
Receive(r, b) ==
  /\ EnterHandler(r, b)
  /\ UNCHANGED <<fsDirs, procs, worker, master, limiter>>

\* fs.mkdir(tempDir, {recursive: true}) completes, line 111-151
MkdirDone(r, ok) ==
  /\ worker = "up"
  /\ req[r].pc = "mkdir"
  /\ IF ok
     THEN /\ req' = [req EXCEPT ![r] = AfterMkdir([@ EXCEPT !.created = TRUE])]
          /\ fsDirs' = [fsDirs EXCEPT ![req[r].tempDir] =
                          [exists |-> TRUE, files |-> {}]]
     ELSE /\ req' = [req EXCEPT ![r] = Reject(@)]
          /\ UNCHANGED fsDirs
  /\ UNCHANGED <<procs, uuidCount, worker, master, limiter>>

\* exec(executionCommand, {timeout}, callback) has started the shell
Spawned(h) ==
  IF h.pc = "exec"
  THEN [procs EXCEPT ![h.tempDir] = [shell |-> "running", prog |-> "none"]]
  ELSE procs

\* fs.writeFile(filePath, code) completes, line 151-201
WriteSourceDone(r, ok) ==
  /\ worker = "up"
  /\ req[r].pc = "writeSource"
  /\ LET h == IF ok THEN AfterWriteSource(req[r])
              ELSE Catch(req[r], <<"ENOSPC: no space left on device, write">>)
     IN /\ req' = [req EXCEPT ![r] = h]
        /\ procs' = Spawned(h)
  /\ fsDirs' = IF ok
               THEN [fsDirs EXCEPT ![req[r].tempDir].files =
                                      @ \cup {"source"}]
               ELSE fsDirs
  /\ UNCHANGED <<uuidCount, worker, master, limiter>>

\* fs.writeFile(inputFilePath, inputContent) completes, line 82-201
WriteInputDone(r, ok) ==
  /\ worker = "up"
  /\ req[r].pc = "writeInput"
  /\ LET h == IF ok THEN AfterWriteInput(req[r])
              ELSE Catch(req[r], <<"ENOSPC: no space left on device, write">>)
     IN /\ req' = [req EXCEPT ![r] = h]
        /\ procs' = Spawned(h)
  /\ fsDirs' = IF ok
               THEN [fsDirs EXCEPT ![req[r].tempDir].files =
                                      @ \cup {"input"}]
               ELSE fsDirs
  /\ UNCHANGED <<uuidCount, worker, master, limiter>>

\* the shell starts the compiler, the interpreter or the compiled program
\* as a child of its own (a shell may also run a command in its own process)
ShellForks(d) ==
  /\ procs[d].shell = "running"
  /\ procs[d].prog = "none"
  /\ procs' = [procs EXCEPT ![d].prog = "running"]
  /\ UNCHANGED <<req, fsDirs, uuidCount, worker, master, limiter>>

\* the child of the shell ends by itself
ProgExits(d) ==
  /\ procs[d].prog = "running"
  /\ procs' = [procs EXCEPT ![d].prog = "exited"]
  /\ UNCHANGED <<req, fsDirs, uuidCount, worker, master, limiter>>

\* the exec callback is entered with res: await cleanup(tempDir), line 202
EnterCallback(r, res) ==
  req' = [req EXCEPT ![r] = CallCleanup([@ EXCEPT !.result = res], "rm_callback")]

\* the shell exits by itself, its child has ended before it
ExecExit(r, res) ==
  /\ worker = "up"
  /\ req[r].pc = "exec"
  /\ procs[req[r].tempDir].shell = "running"
  /\ procs[req[r].tempDir].prog # "running"
  /\ procs' = [procs EXCEPT ![req[r].tempDir].shell = "exited"]
  /\ EnterCallback(r, res)
  /\ UNCHANGED <<fsDirs, uuidCount, worker, master, limiter>>

\* the timer of exec fires: child.kill(killSignal) signals the shell, the
\* process exec has spawned, and no other process
ExecTimeout(r, res) ==
  /\ worker = "up"
  /\ req[r].pc = "exec"
  /\ procs[req[r].tempDir].shell = "running"
  /\ procs' = [procs EXCEPT ![req[r].tempDir].shell = "killed"]
  /\ EnterCallback(r, res)
  /\ UNCHANGED <<fsDirs, uuidCount, worker, master, limiter>>

\* stdout or stderr outgrows maxBuffer: exec sets the error
\* ERR_CHILD_PROCESS_STDIO_MAXBUFFER, which has no killed property, and
\* signals the shell
ExecMaxBuffer(r, o, e) ==
  /\ worker = "up"
  /\ req[r].pc = "exec"
  /\ procs[req[r].tempDir].shell = "running"
  /\ procs' = [procs EXCEPT ![req[r].tempDir].shell = "killed"]
  /\ EnterCallback(r, ExecResult("maxbuffer", FALSE,
                                 <<"stdout maxBuffer length exceeded">>, o, e))
  /\ UNCHANGED <<fsDirs, uuidCount, worker, master, limiter>>

\* the shell cannot be started: the child emits 'error'
ExecSpawnError(r) ==
  /\ worker = "up"
  /\ req[r].pc = "exec"
  /\ procs[req[r].tempDir] = [shell |-> "running", prog |-> "none"]
  /\ procs' = [procs EXCEPT ![req[r].tempDir].shell = "failed"]
  /\ EnterCallback(r, ExecResult("spawn", FALSE, <<"spawn /bin/sh EAGAIN">>,
                                 <<>>, <<>>))
  /\ UNCHANGED <<fsDirs, uuidCount, worker, master, limiter>>

\* fs.rm(tempDir, {recursive: true, force: true}) of cleanup completes; a
\* failure is caught and logged by cleanup, line 66-73; then the response
CleanupDone(r, ok) ==
  /\ worker = "up"
  /\ req[r].pc \in {"rm_unsupported", "rm_java", "rm_callback", "rm_catch"}
  /\ req' = [req EXCEPT ![r] = AfterCleanup([@ EXCEPT !.rmFailed = ~ok])]
  /\ fsDirs' = IF ok THEN [fsDirs EXCEPT ![req[r].tempDir] = NoDir] ELSE fsDirs
  /\ UNCHANGED <<procs, uuidCount, worker, master, limiter>>

\* the promise of the async handler has rejected and nothing handles it.
\* The framework of the build decides: either the rejection is unhandled
\* and ends the worker process, with every handler in it, or the framework
\* passes it to its error handler, which answers with its own error page.
UnhandledRejection(r, crash) ==
  /\ worker = "up"
  /\ req[r].pc = "rejected"
  /\ IF crash
     THEN /\ worker' = "exited"
          /\ master' = [master EXCEPT !.live = @ - 1, !.exits = @ + 1]
          /\ req' = [s \in Slots |->
                       IF req[s].pc \in InFlight
                       THEN [req[s] EXCEPT !.pc = "aborted"]
                       ELSE req[s]]
     ELSE /\ worker' = worker
          /\ master' = master
          /\ req' = [req EXCEPT ![r] = Respond(@, FrameworkError)]
  /\ UNCHANGED <<fsDirs, procs, uuidCount, limiter>>

\* Fork that forks two workers for one exit
ForkTwo ==
  /\ master.forked = NumCPUs
  /\ master.exits > 0
  /\ master' = [master EXCEPT !.live = @ + 2, !.exits = @ - 1]
  /\ worker' = IF worker = "exited" THEN "up" ELSE worker
  /\ limiter' = IF worker = "exited"
                THEN [limiter EXCEPT !.hits = 0, !.admitted = 0]
                ELSE limiter
  /\ UNCHANGED <<req, fsDirs, procs, uuidCount>>

\* cluster.on("exit"), line 44-47: the master, its loop done, handles one
\* 'exit' event and forks one new worker; the new worker runs the handlers
\* when the one that ran them has exited, and starts with an empty store
Fork ==
  /\ master.forked = NumCPUs
  /\ master.exits > 0
  /\ master' = [master EXCEPT !.live = @ + 1, !.exits = @ - 1]
  /\ worker' = IF worker = "exited" THEN "up" ELSE worker
  /\ limiter' = IF worker = "exited"
                THEN [limiter EXCEPT !.hits = 0, !.admitted = 0]
                ELSE limiter
  /\ UNCHANGED <<req, fsDirs, procs, uuidCount>>

\* the connection of an answered or aborted request is closed
Close(r) ==
  /\ req[r].pc \in {"done", "aborted"}
  /\ req' = [req EXCEPT ![r] = Blank]
  /\ UNCHANGED <<fsDirs, procs, uuidCount, worker, master, limiter>>

\* One request at a time: a request is received when no other is handled.
\* The connections are alike, and the request comes on the first.
Next ==
  \/ \E b \in Bodies :
       /\ \A s \in Slots : req[s].pc = "idle"
       /\ uuidCount < SeqRequests
       /\ Receive(1, b)
  \/ \E r \in Slots, ok \in BOOLEAN : MkdirDone(r, ok)
  \/ \E r \in Slots, ok \in BOOLEAN : WriteSourceDone(r, ok)
  \/ \E r \in Slots, ok \in BOOLEAN : WriteInputDone(r, ok)
  \/ \E d \in Tokens : ShellForks(d)
  \/ \E d \in Tokens : ProgExits(d)
  \/ \E r \in Slots, res \in ExitResults : ExecExit(r, res)
  \/ \E r \in Slots, res \in TimeoutResults : ExecTimeout(r, res)
  \/ \E r \in Slots, o \in Stdouts, e \in Stderrs : ExecMaxBuffer(r, o, e)
  \/ \E r \in Slots : ExecSpawnError(r)
  \/ \E r \in Slots, ok \in BOOLEAN : CleanupDone(r, ok)
  \/ \E r \in Slots, crash \in BOOLEAN : UnhandledRejection(r, crash)
  \/ Fork
  \/ \E r \in Slots : Close(r)

Spec == Init /\ [][Next]_vars

(***************************************************************************)
(* Requests in flight at the same time on the worker: a request is         *)
(* received on any idle connection while others are handled.               *)
(***************************************************************************)
ConcBodies ==
  {[code |-> Str(CodePrint), language |-> Str(python), input |-> NoInput],
   [code |-> Str(CodeClassA), language |-> Str(java),
    input |-> ArrayInput(1, 2)]}

ConcResults ==
  {ExecResult("none", FALSE, NoText, <<" ","2","\n">>, <<>>),
   ExecResult("exit", FALSE, CommandFailed(<<"E","r","r","o","r","\n">>),
              <<>>, <<"E","r","r","o","r","\n">>)}

NextConc ==
  \/ \E r \in Slots, b \in ConcBodies : Receive(r, b)
  \/ \E r \in Slots, ok \in BOOLEAN : MkdirDone(r, ok)
  \/ \E r \in Slots : WriteSourceDone(r, TRUE)
  \/ \E r \in Slots : WriteInputDone(r, TRUE)
  \/ \E d \in Tokens : ShellForks(d)
  \/ \E d \in Tokens : ProgExits(d)
  \/ \E r \in Slots, res \in ConcResults : ExecExit(r, res)
  \/ \E r \in Slots :
       ExecTimeout(r, ExecResult("timeout", TRUE, CommandFailed(<<>>),
                                 <<>>, <<>>))
  \/ \E r \in Slots : CleanupDone(r, TRUE)
  \/ \E r \in Slots, crash \in BOOLEAN : UnhandledRejection(r, crash)
  \/ Fork
  \/ \E r \in Slots : Close(r)

SpecConc == Init /\ [][NextConc]_vars

(***************************************************************************)
(* The master process, line 36-48, from its start, with the worker that    *)
(* runs the handlers and the other workers of the pool.                    *)
(***************************************************************************)
InitSup ==
  /\ req = [r \in Slots |-> Blank]
  /\ fsDirs = [d \in Tokens |-> NoDir]
  /\ procs = [d \in Tokens |-> NoProcs]
  /\ uuidCount = 0
  /\ worker = "unforked"
  /\ master = [forked |-> 0, live |-> 0, exits |-> 0, exited |-> 0]
  /\ limiter = NoHits

\* one turn of the loop of line 40-42: cluster.fork(); the first worker
\* forked is the one whose handlers the model follows
MasterFork ==
  /\ master.forked < NumCPUs
  /\ master' = [master EXCEPT !.forked = @ + 1, !.live = @ + 1]
  /\ worker' = IF worker = "unforked" THEN "up" ELSE worker
  /\ UNCHANGED <<req, fsDirs, procs, uuidCount, limiter>>

\* a worker other than `worker` exits, for any reason: the master is sent
\* an 'exit' event; the store of the limiter of that worker is gone with
\* it (counted: it is the worker whose store the model follows)
PeerExit(counted) ==
  /\ master.live > (IF worker = "up" THEN 1 ELSE 0)
  /\ master.exited < MaxExits
  /\ master' = [master EXCEPT !.live = @ - 1, !.exits = @ + 1,
                              !.exited = @ + 1]
  /\ limiter' = IF counted
                THEN [limiter EXCEPT !.peerHits = 0, !.peerAdmitted = 0]
                ELSE limiter
  /\ UNCHANGED <<req, fsDirs, procs, uuidCount, worker>>

SupBodies ==
  {[code |-> Str(CodePrint), language |-> Str(python), input |-> NoInput],
   [code |-> Str(CodePrint), language |-> Num, input |-> NoInput]}

NextSup ==
  \/ MasterFork
  \/ \E counted \in BOOLEAN : PeerExit(counted)
  \/ Fork
  \/ \E b \in SupBodies :
       /\ \A s \in Slots : req[s].pc = "idle"
       /\ Receive(1, b)
  \/ \E r \in Slots : MkdirDone(r, TRUE)
  \/ \E r \in Slots : WriteSourceDone(r, TRUE)
  \/ \E r \in Slots, res \in ConcResults : ExecExit(r, res)
  \/ \E r \in Slots : CleanupDone(r, TRUE)
  \/ \E r \in Slots, crash \in BOOLEAN : UnhandledRejection(r, crash)
  \/ \E r \in Slots : Close(r)

\* The loop of the master runs to its end, and the event loop of the
\* master calls the listener for every 'exit' event.
SpecSup ==
  InitSup /\ [][NextSup]_vars /\ WF_vars(MasterFork) /\ WF_vars(Fork)

(***************************************************************************)
(* The rate limiter of line 57-63, app.use(rateLimit({windowMs, max})),    *)
(* in front of every route of a worker.  Each worker process has a store   *)
(* of its own in memory; the store counts the requests of a client address *)
(* in the current window, the one at hand included, and the limiter passes *)
(* the request on when that count is at most max.                          *)
(***************************************************************************)
\* Admits that passes on the request that finds max requests counted
AdmitsInclusive(hits) == hits <= RateLimitMax

\* the limiter passes on a request that finds `hits` requests counted
Admits(hits) == hits + 1 <= RateLimitMax

\* the count after one more request; counts above max + 1 behave alike
Count(hits) == IF hits <= RateLimitMax THEN hits + 1 ELSE hits

\* a request of the client for POST /run-program, body b, comes in on
\* connection r of `worker`
Arrive(r, b) ==
  /\ worker = "up"
  /\ req[r].pc = "idle"
  /\ IF Admits(limiter.hits)
     THEN /\ EnterHandler(r, b)
          /\ limiter' = [limiter EXCEPT !.hits = Count(@),
                                        !.admitted = @ + 1]
     ELSE /\ req' = [req EXCEPT ![r] =
                       Respond([@ EXCEPT !.body = b], TooManyRequests)]
          /\ limiter' = [limiter EXCEPT !.hits = Count(@)]
          /\ uuidCount' = uuidCount
  /\ UNCHANGED <<fsDirs, procs, worker, master>>

\* a request of the client for another route comes in on connection r of
\* `worker`: the limiter counts it, no route matches it
ArriveOther(r) ==
  /\ worker = "up"
  /\ req[r].pc = "idle"
  /\ IF Admits(limiter.hits)
     THEN /\ req' = [req EXCEPT ![r] = Respond(@, NotFound)]
          /\ limiter' = [limiter EXCEPT !.hits = Count(@),
                                        !.admitted = @ + 1]
     ELSE /\ req' = [req EXCEPT ![r] = Respond(@, TooManyRequests)]
          /\ limiter' = [limiter EXCEPT !.hits = Count(@)]
  /\ UNCHANGED <<fsDirs, procs, uuidCount, worker, master>>

\* the window of the store of `worker` ends
WindowReset ==
  /\ limiter.hits > 0
  /\ limiter' = [limiter EXCEPT !.hits = 0, !.admitted = 0]
  /\ UNCHANGED <<req, fsDirs, procs, uuidCount, worker, master>>

\* the counts of the other worker after k more requests of the client:
\* each is counted, and passed on while the count before it is below max
PeerCounts(l, k) ==
  LET room == IF l.peerHits < RateLimitMax THEN RateLimitMax - l.peerHits
              ELSE 0
  IN [l EXCEPT !.peerHits = IF @ + k <= RateLimitMax THEN @ + k
                            ELSE RateLimitMax + 1,
               !.peerAdmitted = IF k <= room THEN @ + k ELSE @ + room]

\* k requests of the client come in on the other worker, one after the
\* other
PeerArrive(k) ==
  /\ master.live > (IF worker = "up" THEN 1 ELSE 0)
  /\ limiter' = PeerCounts(limiter, k)
  /\ limiter' # limiter
  /\ UNCHANGED <<req, fsDirs, procs, uuidCount, worker, master>>

\* the window of the store of the other worker ends
PeerWindowReset ==
  /\ limiter.peerHits > 0
  /\ limiter' = [limiter EXCEPT !.peerHits = 0, !.peerAdmitted = 0]
  /\ UNCHANGED <<req, fsDirs, procs, uuidCount, worker, master>>

RateBodies ==
  {[code |-> Str(CodePrint), language |-> Str(python), input |-> NoInput]}

PeerBursts == {RateLimitMax}

\* One request at a time on the first connection of `worker`.
NextRate ==
  \/ \E b \in RateBodies :
       (\A s \in Slots : req[s].pc = "idle") /\ Arrive(1, b)
  \/ (\A s \in Slots : req[s].pc = "idle") /\ ArriveOther(1)
  \/ WindowReset
  \/ \E k \in PeerBursts : PeerArrive(k)
  \/ PeerWindowReset
  \/ \E r \in Slots : MkdirDone(r, TRUE)
  \/ \E r \in Slots : WriteSourceDone(r, TRUE)
  \/ \E r \in Slots :
       ExecExit(r, ExecResult("none", FALSE, NoText, <<" ","2","\n">>, <<>>))
  \/ \E r \in Slots : CleanupDone(r, TRUE)
  \/ \E r \in Slots : Close(r)

SpecRate == Init /\ [][NextRate]_vars

TypeOK ==
  /\ \A r \in Slots : req[r].pc \in InFlight \cup {"idle", "done", "aborted"}
  /\ uuidCount \in 0..MaxRequests
  /\ worker \in {"unforked", "up", "exited"}
  /\ master.forked \in 0..NumCPUs
  /\ master.live \in 0..NumCPUs
  /\ master.exits \in 0..NumCPUs
  /\ master.exited \in 0..MaxExits
  /\ limiter.hits \in 0..(RateLimitMax + 1)
  /\ limiter.peerHits \in 0..(RateLimitMax + 1)
  /\ limiter.admitted \in 0..limiter.hits
  /\ limiter.peerAdmitted \in 0..limiter.peerHits

(***************************************************************************)
(* Properties.                                                             *)
(***************************************************************************)
\* the handler of r has ended: it has answered, or its promise has rejected
Ended(r) == req[r].pc \in {"done", "rejected", "aborted"}

\* the workspace directory of r is on disk
WorkspaceExists(r) == req[r].tempDir # 0 /\ fsDirs[req[r].tempDir].exists

\* a process spawned for r is running
ProcessRunning(r) ==
  /\ req[r].tempDir # 0
  /\ \/ procs[req[r].tempDir].shell = "running"
     \/ procs[req[r].tempDir].prog = "running"

\* C1: once the workspace directory of a request has been created, its
\* removal is attempted exactly once on every path of the handler: never
\* twice, and once when the handler has ended.
C1_CleanupExactlyOnce ==
  \A r \in Slots :
    /\ req[r].rmCalls <= 1
    /\ (req[r].created /\ Ended(r)) => req[r].rmCalls = 1

\* C2: every error raised while a request is handled becomes a response
\* envelope and the worker keeps running: no handler ends with a rejected
\* promise, every answer is an envelope of the handler, the worker does not
\* exit.
C2_EveryErrorBecomesEnvelope ==
  /\ worker = "up"
  /\ \A r \in Slots :
       /\ req[r].pc \notin {"rejected", "aborted"}
       /\ req[r].pc = "done" => req[r].response.kind = "envelope"

\* C3: whatever the outcome of a request, its workspace directory is not on
\* disk when its response has been sent (the removal itself not failing).
C3_NoWorkspaceAtResponse ==
  \A r \in Slots :
    (req[r].sent > 0 /\ ~req[r].rmFailed) => ~WorkspaceExists(r)

\* C4: once the timeout outcome has been delivered for a request, no
\* process spawned for it is running: neither the shell nor a child of it.
C4_TimeoutKillsProcessTree ==
  \A r \in Slots :
    (req[r].pc \in {"rm_callback", "done"} /\ req[r].result.error = "timeout")
      => ~ProcessRunning(r)

\* C5 as stated: a timed-out execution is answered with responseCode 202,
\* an empty output and the timeout text in errorMessage.
C5_TimeoutTextInErrorMessage ==
  \A r \in Slots :
    (req[r].pc = "done" /\ req[r].result.error = "timeout")
      => /\ req[r].response.responseCode = 202
         /\ req[r].response.output = NoText
         /\ req[r].response.errorMessage = TimeoutText

\* C5 as amended: a timed-out execution is answered with responseCode 202,
\* the timeout text in output and an empty errorMessage, whatever the
\* captured standard error and standard output contain.
C5_TimeoutResponse ==
  \A r \in Slots :
    (req[r].pc = "done" /\ req[r].result.error = "timeout")
      => req[r].response = Envelope(500, 202, TimeoutText, NoText)

\* a timed-out request has been answered and its captured standard error
\* contains "error", the case of the compile-error rule
C5_Witness ==
  \E r \in Slots :
    /\ req[r].pc = "done"
    /\ req[r].result.error = "timeout"
    /\ Includes(req[r].result.stderr, ErrorWord)

\* the languages of the switch, line 159-198
SupportedLanguages == {java, python, javascript, clang, cpp, csharp}

\* the size of a request is over a limit of section 3: the code is longer
\* than MaxCodeLength characters, or the input, joined by newline (or the
\* input string), is longer than MaxInputLength characters
Oversized(b) ==
  \/ CodeLengthExceeds(b.code, MaxCodeLength)
  \/ (b.input.t = "array" /\ JoinedLength(b.input) > MaxInputLength)
  \/ (b.input.t = "string" /\ b.input.n > MaxInputLength)

\* C6: a request with code and language whose code is longer than 5000
\* characters, or whose joined input is longer than 1000 characters, is
\* answered with a validation responseCode, spawns no process and leaves no
\* workspace directory behind.
C6_OversizedRejected ==
  \A r \in Slots :
    (Truthy(req[r].body.code) /\ Truthy(req[r].body.language)
       /\ Oversized(req[r].body))
      => /\ req[r].spawned = 0
         /\ (req[r].pc = "done" /\ req[r].response.kind = "envelope") =>
              /\ req[r].response.responseCode \in {203, 400}
              /\ ~req[r].rmFailed => ~WorkspaceExists(r)

\* C7: a request that passes the two first validations and whose language,
\* lower-cased, is none of the six supported ones is answered "Unsupported
\* language." with responseCode 203, spawns no process, and its workspace
\* is removed.
C7_UnsupportedLanguage ==
  \A r \in Slots :
    (req[r].created /\ req[r].body.language.t = "string"
       /\ ToLowerCase(req[r].body.language.s) \notin SupportedLanguages)
      => /\ req[r].spawned = 0
         /\ req[r].pc = "done" =>
              /\ req[r].response =
                   Envelope(400, 203, UnsupportedText, UnsupportedText)
              /\ ~req[r].rmFailed => ~WorkspaceExists(r)

\* the command the handler synthesizes for body b in the workspace of
\* token d, line 132-199
CommandFor(b, d) ==
  LET key == ToLowerCase(b.language.s)
  IN SynthesizeCommand(
       key, d, FileNameOf(key, FileExtensionOf(key), b.code),
       IF TruthyInput(b.input) THEN PathJoin(d, InputFileName) ELSE NoPath)

\* code c, put in place of the code of a request that reaches exec, reaches
\* exec as well
ReachesExec(key, c) ==
  /\ c.t = "string"
  /\ Truthy(c)
  /\ ~CodeLengthExceeds(c, MaxCodeLength)
  /\ key = java => ClassNameMatch(c.s) # <<>>

\* C8 as stated: the command of a request is the command of every request
\* with the same language, the same workspace token and the same input but
\* another code.
C8_CommandIndependentOfCode ==
  \A r \in Slots :
    req[r].pc = "exec" =>
      \A c \in Codes :
        ReachesExec(ToLowerCase(req[r].body.language.s), c)
          => CommandFor([req[r].body EXCEPT !.code = c], req[r].tempDir)
               = req[r].executionCommand

\* C8 as amended: the command depends on the code only through the class
\* name that language java takes from it: for a language other than java
\* the command is the same for every code, for java it is the same for
\* every code with the same first class name.
C8_CommandDependsOnClassNameOnly ==
  \A r \in Slots :
    req[r].pc = "exec" =>
      \A c \in Codes :
        (/\ ReachesExec(ToLowerCase(req[r].body.language.s), c)
         /\ ToLowerCase(req[r].body.language.s) = java
              => ClassNameMatch(c.s) = ClassNameMatch(req[r].body.code.s))
          => CommandFor([req[r].body EXCEPT !.code = c], req[r].tempDir)
               = req[r].executionCommand

\* a request of a language other than java has been spawned whose code
\* holds a class name, while another code with another class name exists
C8_Witness ==
  \E r \in Slots :
    /\ req[r].pc = "exec"
    /\ ToLowerCase(req[r].body.language.s) # java
    /\ ClassNameMatch(req[r].body.code.s) # <<>>
    /\ \E c \in Codes :
         /\ ReachesExec(java, c)
         /\ ClassNameMatch(c.s) # ClassNameMatch(req[r].body.code.s)

\* the command redirects standard input from the input file of token d
Redirects(cmd, d) ==
  \E i \in 1..(Len(cmd) - 1) :
    cmd[i] = Word("<") /\ cmd[i + 1] = PathJoin(d, InputFileName)

\* C9 as stated: for a request that reaches execution, input.txt is in the
\* workspace and the command redirects from it if and only if the request
\* has an input sequence that is not empty.
C9_InputFileIffNonEmpty ==
  \A r \in Slots :
    req[r].pc = "exec" =>
      LET nonEmpty == req[r].body.input.t = "array" /\ req[r].body.input.n > 0
      IN /\ ("input" \in fsDirs[req[r].tempDir].files) <=> nonEmpty
         /\ Redirects(req[r].executionCommand, req[r].tempDir) <=> nonEmpty

\* C9 as amended: for a request that reaches execution, input.txt is in the
\* workspace and the command redirects from it if and only if the request
\* has an input array, empty or not; a request without input, or with
\* input null, has no input file and no redirection.
C9_InputFileIffArray ==
  \A r \in Slots :
    req[r].pc = "exec" =>
      LET supplied == req[r].body.input.t = "array"
      IN /\ ("input" \in fsDirs[req[r].tempDir].files) <=> supplied
         /\ Redirects(req[r].executionCommand, req[r].tempDir) <=> supplied

\* a request with the empty input array has reached execution
C9_Witness ==
  \E r \in Slots :
    /\ req[r].pc = "exec"
    /\ req[r].body.input = ArrayInput(0, 0)
    /\ "input" \in fsDirs[req[r].tempDir].files

\* C10: a request whose workspace directory cannot be created is answered
\* all the same, with responseCode 400, and spawns no process: its handler
\* does not end with a rejected promise.
C10_MkdirFailureAnswered ==
  \A r \in Slots :
    (req[r].tempDir # 0 /\ ~req[r].created /\ req[r].pc # "mkdir")
      => /\ req[r].spawned = 0
         /\ req[r].pc \notin {"rejected", "aborted"}
         /\ req[r].pc = "done" =>
              /\ req[r].response.kind = "envelope"
              /\ req[r].response.responseCode = 400

\* the code of r is text of language java in which the pattern of line 136
\* matches nowhere
JavaWithoutClass(r) ==
  /\ req[r].body.language.t = "string"
  /\ ToLowerCase(req[r].body.language.s) = java
  /\ req[r].body.code.t = "string"
  /\ ClassNameMatch(req[r].body.code.s) = <<>>

\* C11: a request of language java whose code holds no class declaration,
\* once its workspace has been created, writes no file and spawns no
\* process, and is answered with status 400, responseCode 400 and the
\* missing class name text, after its workspace has been removed.
C11_JavaWithoutClassRejected ==
  \A r \in Slots :
    (JavaWithoutClass(r) /\ req[r].created) =>
      /\ req[r].spawned = 0
      /\ req[r].pc \in {"rm_java", "done"}
      /\ req[r].fileName = <<>>
      /\ fsDirs[req[r].tempDir].files = {}
      /\ req[r].pc = "done" =>
           /\ req[r].response = Envelope(400, 400, NoClassText, NoText)
           /\ req[r].rmCalls = 1
           /\ ~req[r].rmFailed => ~WorkspaceExists(r)

\* a java request whose code is the word class with no space before the
\* name has been answered, its workspace removed
C11_Witness ==
  \E r \in Slots :
    /\ JavaWithoutClass(r)
    /\ req[r].body.code = Str(CodeNoSpace)
    /\ req[r].created
    /\ req[r].pc = "done"
    /\ ~WorkspaceExists(r)

\* r has been answered by the exec callback of an execution that has
\* finished without a timeout
AnsweredWithoutTimeout(r) ==
  /\ req[r].pc = "done"
  /\ req[r].spawned = 1
  /\ req[r].response.kind = "envelope"
  /\ req[r].result.error # "timeout"

\* C12 as stated: the response of a finished execution that did not time
\* out follows the table: an error with the word error in stderr gives 202,
\* the trimmed stderr and the compilation text; another error gives 202,
\* the trimmed stderr, or the message of the error when stderr is empty,
\* and the runtime text; no error gives 201, the trimmed stdout and no
\* errorMessage.
C12_TableWithEmptyStderr ==
  \A r \in Slots :
    AnsweredWithoutTimeout(r) =>
      LET res == req[r].result
          resp == req[r].response
      IN IF res.error # "none" /\ Includes(res.stderr, ErrorWord)
         THEN resp = Envelope(500, 202, Trim(res.stderr), CompilationText)
         ELSE IF res.error # "none"
              THEN resp = Envelope(500, 202,
                                   IF res.stderr = <<>> THEN res.message
                                   ELSE Trim(res.stderr),
                                   RuntimeText)
              ELSE resp = Envelope(200, 201, Trim(res.stdout), NoText)

\* C12 as amended: the same table, where the message of the error is the
\* output whenever the trimmed stderr is empty, so also for a stderr of
\* white space only.
C12_TableWithBlankStderr ==
  \A r \in Slots :
    AnsweredWithoutTimeout(r) =>
      LET res == req[r].result
          resp == req[r].response
      IN IF res.error # "none" /\ Includes(res.stderr, ErrorWord)
         THEN resp = Envelope(500, 202, Trim(res.stderr), CompilationText)
         ELSE IF res.error # "none"
              THEN resp = Envelope(500, 202,
                                   IF Trim(res.stderr) = <<>> THEN res.message
                                   ELSE Trim(res.stderr),
                                   RuntimeText)
              ELSE resp = Envelope(200, 201, Trim(res.stdout), NoText)

\* a command that failed with white space only in stderr has been answered
\* with the message of the error
C12_Witness ==
  \E r \in Slots :
    /\ AnsweredWithoutTimeout(r)
    /\ req[r].result.error = "exit"
    /\ req[r].result.stderr = <<" ", "\n">>
    /\ req[r].response.output = req[r].result.message

\* an exception has been caught by the catch block of r
Caught(r) == req[r].err # NoText

\* C16: a request whose source write or input write has failed, or in
\* which another exception was thrown between the source write and the
\* spawn, spawns no process, has its workspace removed, and is answered
\* with status 500, responseCode 202, the message of the exception and
\* the internal error text.
C16_WriteFailureAnswered ==
  \A r \in Slots :
    Caught(r) =>
      /\ req[r].spawned = 0
      /\ ~ProcessRunning(r)
      /\ req[r].rmCalls = 1
      /\ req[r].pc \in {"rm_catch", "done"}
      /\ req[r].pc = "done" =>
           /\ req[r].response =
                Envelope(500, 202, req[r].err, InternalText)
           /\ ~req[r].rmFailed => ~WorkspaceExists(r)

\* a request with an input array, one of whose two writes has failed, has
\* been answered, its workspace removed
C16_Witness ==
  \E r \in Slots :
    /\ Caught(r)
    /\ req[r].body.input.t = "array"
    /\ req[r].err = <<"ENOSPC: no space left on device, write">>
    /\ req[r].pc = "done"
    /\ ~WorkspaceExists(r)

\* C17: whenever the command of a request has been spawned and has not yet
\* reported, the source file is in the workspace, and so is the input file
\* when the request has supplied input: no write is under way or still to
\* come.
C17_SpawnAfterWrites ==
  \A r \in Slots :
    (req[r].pc = "exec" \/ (ProcessRunning(r) /\ req[r].pc \in InFlight)) =>
      /\ req[r].spawned = 1
      /\ req[r].pc \notin {"mkdir", "writeSource", "writeInput"}
      /\ req[r].pc = "exec" =>
           /\ WorkspaceExists(r)
           /\ "source" \in fsDirs[req[r].tempDir].files
           /\ TruthyInput(req[r].body.input) =>
                "input" \in fsDirs[req[r].tempDir].files

\* the command of a request with input is running, both files written
C17_Witness ==
  \E r \in Slots :
    /\ req[r].pc = "exec"
    /\ procs[req[r].tempDir].prog = "running"
    /\ req[r].body.input = ArrayInput(1, 2)
    /\ fsDirs[req[r].tempDir].files = {"source", "input"}

\* a declaration starts at position i of s and its identifier at b: the
\* word class, then white space up to b, then the first character of an
\* identifier
DeclarationAt(s, i, b) ==
  /\ i + 5 < b /\ b <= Len(s)
  /\ \A k \in 0..4 : s[i + k] = ClassKeyword[k + 1]
  /\ \A k \in (i + 5)..(b - 1) : IsSpace(s[k])
  /\ IsIdStart(s[b])

\* id is the identifier of the first declaration of s: the longest run of
\* identifier characters at the leftmost place where a declaration starts
IsFirstClassIdentifier(s, id) ==
  \E i \in 1..Len(s), b \in 1..Len(s) :
    /\ DeclarationAt(s, i, b)
    /\ \A j \in 1..(i - 1), c \in 1..Len(s) : ~DeclarationAt(s, j, c)
    /\ id # <<>>
    /\ b + Len(id) - 1 <= Len(s)
    /\ id = SubSeq(s, b, b + Len(id) - 1)
    /\ \A k \in 1..Len(id) : IsIdPart(id[k])
    /\ b + Len(id) <= Len(s) => ~IsIdPart(s[b + Len(id)])

\* C18: a java request whose code holds a class declaration gets, once
\* its workspace exists, the file name <Identifier>.java, Identifier being
\* the identifier of the first declaration in the code, and its command,
\* once synthesized, is javac <file> && java -cp <workspace> <Identifier>.
C18_JavaFileAndTarget ==
  \A r \in Slots :
    LET b == req[r].body
        cmd == req[r].executionCommand
        fileName == req[r].fileName
        id == SubSeq(fileName, 1, Len(fileName) - 1)
    IN (/\ b.language.t = "string" /\ ToLowerCase(b.language.s) = java
        /\ b.code.t = "string"
        /\ \E i \in 1..Len(b.code.s), c \in 1..Len(b.code.s) :
             DeclarationAt(b.code.s, i, c)
        /\ req[r].created)
         => /\ req[r].pc \notin {"rm_java", "rm_unsupported", "rejected"}
            /\ fileName # <<>>
            /\ fileName = id \o <<".java">>
            /\ IsFirstClassIdentifier(b.code.s, id)
            /\ cmd # NoCommand =>
                 /\ Len(cmd) >= 7
                 /\ SubSeq(cmd, 1, 7) =
                      <<Word("javac"), PathJoin(req[r].tempDir, fileName),
                        Word("&&"), Word("java"), Word("-cp"),
                        DirPath(req[r].tempDir), Text(id)>>

\* a java request with two declarations in its code, the first after the
\* word subclass, has been spawned with the first identifier as target
C18_Witness ==
  \E r \in Slots :
    /\ req[r].pc = "exec"
    /\ ToLowerCase(req[r].body.language.s) = java
    /\ req[r].body.code = Str(CodeSecond)
    /\ req[r].fileName = <<"A", "1", "$", ".java">>
    /\ req[r].executionCommand[7] = Text(<<"A", "1", "$">>)

\* C19: no request is sent more than one response, and no request is
\* answered by both the catch block and the exec callback: a request whose
\* exception was caught has spawned nothing, so has no callback.
C19_AtMostOneResponse ==
  \A r \in Slots :
    /\ req[r].sent <= 1
    /\ req[r].pc = "done" => req[r].sent = 1
    /\ req[r].pc \in InFlight => req[r].sent = 0
    /\ ~(Caught(r) /\ req[r].spawned > 0)

\* a request has been answered once by the exec callback
C19_Witness ==
  \E r \in Slots :
    /\ req[r].pc = "done"
    /\ req[r].spawned = 1
    /\ req[r].sent = 1
    /\ req[r].response = Classify(req[r].result)

\* the response of the timeout branch, line 210-214
TimeoutResponse == Envelope(500, 202, TimeoutText, NoText)

\* C20: a request is answered with the timeout response only if the timer
\* of exec has ended its shell; a shell ended by exec for an outgrown
\* output buffer, or one that could not be started, is answered as a
\* failed command.
C20_TimeoutOnlyByTimer ==
  \A r \in Slots :
    req[r].pc = "done" =>
      /\ req[r].response = TimeoutResponse =>
           /\ req[r].spawned = 1
           /\ req[r].result.error = "timeout"
           /\ procs[req[r].tempDir].shell = "killed"
      /\ (req[r].spawned = 1 /\ req[r].result.error \in {"maxbuffer", "spawn"}) =>
           /\ req[r].response.kind = "envelope"
           /\ req[r].response.errorMessage \in {CompilationText, RuntimeText}

\* a request whose shell exec has ended for an outgrown buffer has been
\* answered as a failed command
C20_Witness ==
  \E r \in Slots :
    /\ req[r].pc = "done"
    /\ req[r].result.error = "maxbuffer"
    /\ procs[req[r].tempDir].shell = "killed"
    /\ req[r].response.errorMessage = RuntimeText

\* the files that the handler of r has written so far
OwnFiles(r) ==
  CASE req[r].pc = "writeSource" -> {}
    [] req[r].pc = "writeInput" -> {"source"}
    [] req[r].pc = "exec" ->
         IF req[r].body.input.t = "array" THEN {"source", "input"}
         ELSE {"source"}

\* C13: requests handled at the same time on one worker have different
\* workspace directories; while a request writes and runs, its workspace
\* is on disk and holds the files it has written itself, its command names
\* no directory but its own, and its child runs until its own callback;
\* the callback of a request runs when its own child has ended, and the
\* response is built from the result given to that callback.
C13_RequestsIsolated ==
  \A r \in Slots :
    /\ \A s \in Slots \ {r} :
         (req[r].tempDir # 0 /\ req[s].tempDir # 0)
           => req[r].tempDir # req[s].tempDir
    /\ req[r].pc \in {"writeSource", "writeInput", "exec"} =>
         /\ WorkspaceExists(r)
         /\ fsDirs[req[r].tempDir].files = OwnFiles(r)
    /\ req[r].pc \in {"rm_unsupported", "rm_java", "rm_callback", "rm_catch"}
         => WorkspaceExists(r)
    /\ req[r].pc = "exec" =>
         /\ procs[req[r].tempDir].shell = "running"
         /\ \A i \in 1..Len(req[r].executionCommand) :
              req[r].executionCommand[i].dir \in {0, req[r].tempDir}
    /\ (req[r].pc \in {"rm_callback", "done"} /\ req[r].spawned = 1) =>
         /\ procs[req[r].tempDir].shell \in {"exited", "killed"}
         /\ req[r].pc = "done" => req[r].response = Classify(req[r].result)

\* a request has been answered from the output of its child, and its
\* workspace removed, while another request with another body is running
\* in its own workspace
C13_Witness ==
  \E r \in Slots, s \in Slots :
    /\ req[r].pc = "done"
    /\ req[r].spawned = 1
    /\ req[r].response = Envelope(200, 201, <<"2">>, NoText)
    /\ ~WorkspaceExists(r)
    /\ req[s].pc = "exec"
    /\ req[s].body # req[r].body
    /\ req[s].tempDir < req[r].tempDir
    /\ fsDirs[req[s].tempDir].files = {"source", "input"}

\* C14: the master forks numCPUs workers in its loop and one worker for
\* each 'exit' event it handles: the live workers are never more than
\* numCPUs, every worker forked by the loop is alive or has an 'exit' event
\* waiting for its replacement, an event is handled by one fork, and once
\* the workers stop exiting the live workers are numCPUs for good.
C14_PoolRestored ==
  /\ [](/\ master.live <= NumCPUs
        /\ master.forked <= NumCPUs
        /\ master.live + master.exits = master.forked)
  /\ [][master.exits' < master.exits =>
          /\ master.exits' = master.exits - 1
          /\ master.live' = master.live + 1]_vars
  /\ <>[](master.live = NumCPUs)

\* workers have exited, the worker that runs the handlers among them, and
\* all have been replaced
C14_Witness ==
  /\ master.exited > 0
  /\ \E r \in Slots : req[r].pc = "aborted"
  /\ worker = "up"
  /\ master.exits = 0
  /\ master.live = NumCPUs

====
